---- MODULE Spec2Model ----
(***************************************************************************)
(* Promise components: the Slot / Shared registry / PromiseComponent core  *)
(* of packages/react/src/index.ts and of the Vue binding.                  *)
(*                                                                         *)
(* The rendering engine is a collaborator: a mounted Slot placeholder owns *)
(* a list `components`; the React binding updates it through the state     *)
(* setter of useState (a functional update is queued and applied when the  *)
(* engine re-renders the placeholder), the Vue binding through a closure   *)
(* that assigns the shallowRef at once.  A promise's reactions run as      *)
(* microtasks in the order in which they were attached: the destroy        *)
(* continuation attached inside render() runs before any continuation the  *)
(* caller attaches to the returned promise.                                *)
(***************************************************************************)
EXTENDS Integers, Sequences, FiniteSets, TLC

VARIABLES
    engine,      \* "react" | "vue": which binding is running
    IN_BROWSER,  \* typeof window !== 'undefined'
    root,        \* the store of Shared objects: appId -> [count, dispatch]
    SHARED,      \* module-level `let SHARED`: the appId of the current Shared object
    slots,       \* appIds createSharedSlot has been called with (the shared Slot components)
    ctrls,       \* PromiseComponent objects constructed so far
    _dispatch,   \* PromiseComponent._dispatch, per controller
    _slot,       \* PromiseComponent.Slot / _slot, per controller: [memo, created, returned]
    ph,          \* Slot placeholders mounted so far: [slot, mounted, components, queue, theme]
    inst         \* component instances created by render(), with their promise

vars == <<engine, IN_BROWSER, root, SHARED, slots, ctrls, _dispatch, _slot, ph, inst>>

-----------------------------------------------------------------------------
(* Bounds *)
MaxInst == 2     \* render() calls per behaviour
MaxPh   == 2     \* Slot placeholder mounts per behaviour
MaxGet  == 3     \* Slot components one controller creates per behaviour
MaxOrder == 3    \* render() calls per behaviour where the order of a list is at stake

(* Dispatch values: a placeholder's setter is the placeholder's index. *)
NULL == -1       \* `_dispatch: Dispatch | null = null`
NOOP == 0        \* `() => {}`

Themes == {"dark", "light"} \* values provided above a mounted Slot
AppIds == {"", "A", "B"}
Ctrl   == {"c1", "c2"}
Values == {41, 42}          \* what a view unit passes to resolve / reject

SlotIds == ({"shared"} \X AppIds) \cup ({"custom"} \X Ctrl)
Placeholders == 1..Len(ph)
Instances    == 1..Len(inst)

-----------------------------------------------------------------------------
(* createShared: `root[key] || (root[key] = {count: 0, dispatch: () => {}})`; *)
(* outside the browser `root` is a fresh `{}` on every call.                  *)
NewShared == [count |-> 0, dispatch |-> NOOP]

(* Mutant: `root[key] = {...}` without the `root[key] ||`. *)
createSharedAlwaysNew(rt, appId) ==
    IF IN_BROWSER
    THEN [k \in DOMAIN rt \cup {appId} |-> IF k = appId THEN NewShared ELSE rt[k]]
    ELSE (appId :> NewShared)

createShared(rt, appId) ==
    IF IN_BROWSER
    THEN IF appId \in DOMAIN rt THEN rt ELSE rt @@ (appId :> NewShared)
    ELSE (appId :> NewShared)

(* The functional updates render() passes to dispatch. *)
AppendUpdate(i) == [op |-> "append", item |-> i]
FilterUpdate(i) == [op |-> "filter", item |-> i]

(* Mutant: the filter drops the last element instead of filtering by identity. *)
ApplyUpdateByIndex(u, components) ==
    IF u.op = "append"
    THEN Append(components, u.item)
    ELSE IF components = <<>> THEN components
         ELSE SubSeq(components, 1, Len(components) - 1)

(* Mutant: the filter keeps the settled instance and drops the others. *)
ApplyUpdateKeepOnly(u, components) ==
    IF u.op = "append"
    THEN Append(components, u.item)
    ELSE SelectSeq(components, LAMBDA item : item = u.item)

(* Mutant: `[component, ...components]`. *)
ApplyUpdatePrepend(u, components) ==
    IF u.op = "append"
    THEN <<u.item>> \o components
    ELSE SelectSeq(components, LAMBDA item : item # u.item)

(* `[...components, component]` and `components.filter((item) => item !== component)` *)
ApplyUpdate(u, components) ==
    IF u.op = "append"
    THEN Append(components, u.item)
    ELSE SelectSeq(components, LAMBDA item : item # u.item)

(* Mutant: every update is computed from the list that was rendered, not *)
(* from the result of the update queued before it; the last one wins.    *)
ApplyAllStale(q, components) ==
    IF q = <<>> THEN components
    ELSE ApplyUpdate(q[Len(q)], components)

(* React applies the queued functional updates in the order they were queued. *)
RECURSIVE ApplyAll(_, _)
ApplyAll(q, components) ==
    IF q = <<>> THEN components
    ELSE ApplyAll(Tail(q), ApplyUpdate(Head(q), components))

(* Mutant: an update is sent to every mounted placeholder. *)
DispatchBroadcast(P, d, u) ==
    IF d = NOOP THEN P
    ELSE [q \in 1..Len(P) |->
             IF ~P[q].mounted THEN P[q]
             ELSE IF engine = "vue"
                  THEN [P[q] EXCEPT !.components = ApplyUpdate(u, @)]
                  ELSE [P[q] EXCEPT !.queue = Append(@, u)]]

(* Mutant: the React setter is given a list computed from the rendered    *)
(* state, so an update replaces the ones queued before it.                *)
DispatchReactLastWins(P, d, u) ==
    IF d = NOOP THEN P
    ELSE IF engine = "vue"
         THEN [P EXCEPT ![d].components = ApplyUpdate(u, @)]
         ELSE IF P[d].mounted
              THEN [P EXCEPT ![d].queue = <<u>>]
              ELSE P

(* Calling a dispatch value d with the update u.                            *)
(*   NOOP:  nothing.                                                        *)
(*   vue:   `components.value = value(components.value)`, at once, also on  *)
(*          the ref of a placeholder that has unmounted.                    *)
(*   react: the state setter queues u; the engine ignores a state update    *)
(*          of an unmounted component.                                      *)
Dispatch(P, d, u) ==
    IF d = NOOP THEN P
    ELSE IF engine = "vue"
         THEN [P EXCEPT ![d].components = ApplyUpdate(u, @)]
         ELSE IF P[d].mounted
              THEN [P EXCEPT ![d].queue = Append(@, u)]
              ELSE P

(* Mutant: the custom Slot's dispatch is never consulted. *)
TargetDispatchSharedOnly(c) == root[SHARED].dispatch

(* Mutant: `_dispatch` is one static field shared by every controller. *)
TargetDispatchStatic(c) ==
    LET bound == {d \in Ctrl : _dispatch[d] # NULL}
    IN  IF bound # {}
        THEN _dispatch[CHOOSE d \in bound : TRUE]
        ELSE root[SHARED].dispatch

(* render(): `const dispatch = this._dispatch || SHARED.dispatch` *)
TargetDispatch(c) ==
    IF _dispatch[c] # NULL THEN _dispatch[c] ELSE root[SHARED].dispatch

(* Mutant: the key is the instance's position among those of its placeholder. *)
AllocKeyPerPlaceholder ==
    Cardinality({i \in Instances : inst[i].dispatch = root[SHARED].dispatch})

(* Mutant: `key: ++SHARED.count`. *)
AllocKeyPreIncrement == root[SHARED].count + 1

(* render(): `key: SHARED.count++` reads the counter of the current Shared object *)
AllocKey == root[SHARED].count

(* Mutant: a deferred without the settled guard, the last call wins. *)
SettleLastWins(r, kind, v) ==
    [r EXCEPT !.state = kind, !.value = v]

(* Mutant: the argument of resolve is not passed on. *)
SettleDropsValue(r, kind, v) ==
    IF r.state = "pending"
    THEN [r EXCEPT !.state = kind, !.value = IF kind = "fulfilled" THEN 0 ELSE v]
    ELSE r

(* The promise's resolve / reject: the first call settles it and queues its *)
(* reactions; later calls are no-ops.                                        *)
Settle(r, kind, v) ==
    IF r.state = "pending"
    THEN [r EXCEPT !.state = kind, !.value = v]
    ELSE r

(* Mutant: the destroy continuation is attached after the caller's. *)
ReactionOrderCallerFirst == <<"caller", "destroy">>

(* The reactions of the promise render() returns, in the order they were     *)
(* attached: render() attaches the destroy continuation before it returns    *)
(* the promise, so whatever the caller attaches comes after it.              *)
ReactionOrder == <<"destroy", "caller">>

NextReaction(r) ==
    IF r.state = "pending" \/ r.ran >= Len(ReactionOrder)
    THEN "none"
    ELSE ReactionOrder[r.ran + 1]

(* Mutant: promise.then(destroy), without the rejection handler. *)
RunsDestroyOnFulfil(r) == r.state = "fulfilled"

(* Mutant: promise.catch(destroy), without the fulfilment handler. *)
RunsDestroyOnReject(r) == r.state = "rejected"

(* promise.finally(f) / promise.then(destroy, destroy): the continuation *)
(* runs on fulfilment and on rejection.                                  *)
RunsDestroy(r) == r.state \in {"fulfilled", "rejected"}

(* The promise derived inside render(), once the continuation has run:   *)
(* promise.finally(f) passes the outcome of `promise` on, f returning     *)
(* normally; promise.then(destroy, destroy) fulfils with what destroy     *)
(* returns.  The field `derived` of an instance holds its state.          *)
DerivedSettle(r) == IF engine = "react" THEN r.state ELSE "fulfilled"

(* render() returns `promise` and drops the derived promise: nothing is   *)
(* ever attached to it.                                                   *)
DerivedHandled == FALSE

(* Mutant: the continuation looks the dispatch up again when it runs. *)
DestroyDispatchCurrent(i) ==
    IF _dispatch[inst[i].ctrl] # NULL
    THEN _dispatch[inst[i].ctrl]
    ELSE root[SHARED].dispatch

(* The destroy continuation calls the `dispatch` render() captured. *)
DestroyDispatch(i) == inst[i].dispatch

(* The list a placeholder holds once its queued updates are applied. *)
ListOf(p) == ApplyAll(ph[p].queue, ph[p].components)

Range(s) == {s[k] : k \in 1..Len(s)}

(* A controller's custom Slot component.  memo is the field that holds it  *)
(* (`Slot` in React, `_slot` in Vue; NULL when empty), created counts the  *)
(* createSlot calls made for the controller, the components being         *)
(* numbered in the order of their creation, and returned is the set of    *)
(* components the accesses to `Slot` have returned.                       *)
NoSlot == [memo |-> NULL, created |-> 0, returned |-> {}]

(* The constructor: React builds the Slot at once, `this.Slot =           *)
(* createSlot(...)`; Vue starts with `_slot = null`.                      *)
ConstructedSlot ==
    IF engine = "react"
    THEN [memo |-> 1, created |-> 1, returned |-> {}]
    ELSE NoSlot

(* Mutant: a getter that makes a new Slot component on every access. *)
SlotGetterNoMemo(s) == [s EXCEPT !.memo = s.created + 1, !.created = @ + 1]

(* `this._slot || (this._slot = createSlot(...))`; in React a read of the *)
(* field the constructor filled.                                          *)
SlotGetter(s) ==
    IF s.memo # NULL
    THEN s
    ELSE [s EXCEPT !.memo = s.created + 1, !.created = @ + 1]

(* An access to `controller.Slot` and what it returns. *)
Access(s) == [SlotGetter(s) EXCEPT !.returned = @ \cup {SlotGetter(s).memo}]

-----------------------------------------------------------------------------
Init ==
    /\ engine \in {"react", "vue"}
    /\ IN_BROWSER = TRUE
    /\ root = createShared(<<>>, "")          \* let SHARED = createShared()
    /\ SHARED = ""
    /\ slots = {""}                           \* export const SharedSlot = createSharedSlot('')
    /\ ctrls = {"c1"}                       \* a module-level `new PromiseComponent(...)`
    /\ _dispatch = [c \in Ctrl |-> NULL]
    /\ _slot = [c \in Ctrl |-> IF c = "c1" THEN ConstructedSlot ELSE NoSlot]
    /\ ph = <<>>
    /\ inst = <<>>

(* Mutant: createSharedSlot without the `if (appId)` test. *)
CreateSharedSlotAlwaysRebinds(appId) ==
    /\ root' = createShared(root, appId)
    /\ SHARED' = appId
    /\ slots' = slots \cup {appId}
    /\ UNCHANGED <<_slot, engine, IN_BROWSER, ctrls, _dispatch, ph, inst>>

(* createSharedSlot(appId) *)
CreateSharedSlot(appId) ==
    /\ IF appId # ""
       THEN /\ root' = createShared(root, appId)
            /\ SHARED' = appId
       ELSE UNCHANGED <<root, SHARED>>
    /\ slots' = slots \cup {appId}
    /\ UNCHANGED <<_slot, engine, IN_BROWSER, ctrls, _dispatch, ph, inst>>

(* Mutant: the constructor takes a key from the current entry. *)
ConstructTakesKey(c) ==
    /\ c \notin ctrls
    /\ ctrls' = ctrls \cup {c}
    /\ _dispatch' = [_dispatch EXCEPT ![c] = NULL]
    /\ _slot' = [_slot EXCEPT ![c] = ConstructedSlot]
    /\ root' = [root EXCEPT ![SHARED].count = @ + 1]
    /\ UNCHANGED <<engine, IN_BROWSER, SHARED, slots, ph, inst>>

(* new PromiseComponent(Component), also reached through clone() *)
Construct(c) ==
    /\ c \notin ctrls
    /\ ctrls' = ctrls \cup {c}
    /\ _dispatch' = [_dispatch EXCEPT ![c] = NULL]
    /\ _slot' = [_slot EXCEPT ![c] = ConstructedSlot]
    /\ UNCHANGED <<engine, IN_BROWSER, root, SHARED, slots, ph, inst>>

(* Mutant: a mounting placeholder takes over the list an earlier          *)
(* placeholder of its Slot was left with.                                 *)
NewPlaceholderCarriesOver(slot) ==
    LET earlier == {p \in Placeholders : ph[p].slot = slot /\ ~ph[p].mounted}
    IN  [slot |-> slot, mounted |-> TRUE,
         components |-> IF earlier = {} THEN <<>>
                        ELSE ph[CHOOSE p \in earlier : \A q \in earlier : q <= p].components,
         queue |-> <<>>, theme |-> "dark"]

(* theme: the value a provider above the placeholder's position provides, *)
(* `useState('dark')` in the test application.                            *)
NewPlaceholder(slot) ==
    [slot |-> slot, mounted |-> TRUE, components |-> <<>>, queue |-> <<>>,
     theme |-> "dark"]

(* Mutant: the Slot registers its setter without looking at IN_BROWSER. *)
MountSharedAlwaysRegisters(appId) ==
    /\ appId \in slots
    /\ Len(ph) < MaxPh
    /\ ph' = Append(ph, NewPlaceholder(<<"shared", appId>>))
    /\ root' = [root EXCEPT ![SHARED].dispatch = Len(ph) + 1]
    /\ UNCHANGED <<_slot, engine, IN_BROWSER, SHARED, slots, ctrls, _dispatch, inst>>

(* A placeholder of a shared Slot component mounts: setDispatch(dispatch) *)
(* runs `SHARED.dispatch = dispatch || (() => {})` on the current SHARED. *)
MountShared(appId) ==
    /\ appId \in slots
    /\ Len(ph) < MaxPh
    /\ ph' = Append(ph, NewPlaceholder(<<"shared", appId>>))
    /\ root' = IF IN_BROWSER
               THEN [root EXCEPT ![SHARED].dispatch = Len(ph) + 1]
               ELSE root
    /\ UNCHANGED <<_slot, engine, IN_BROWSER, SHARED, slots, ctrls, _dispatch, inst>>

(* The setDispatch closures createSlot is given: the constructor's        *)
(* `this._dispatch = dispatch` for a custom Slot, createSharedSlot's       *)
(* `SHARED.dispatch = dispatch || (() => {})` for a shared one.  b holds   *)
(* the two stores the closures write.                                      *)
setDispatch(b, slot, d) ==
    IF slot[1] = "shared"
    THEN [b EXCEPT !.root[SHARED].dispatch = IF d = NULL THEN NOOP ELSE d]
    ELSE [b EXCEPT !._dispatch[slot[2]] = d]

(* Mutant: the effect is not run again after the simulated unmount. *)
EffectReplayNoRemount(b, slot, d) ==
    setDispatch(setDispatch(b, slot, d), slot, NULL)

(* React.StrictMode (development): a component's effects are run as mount, *)
(* cleanup, mount, on the same state hook.                                 *)
EffectReplay(b, slot, d) ==
    setDispatch(setDispatch(setDispatch(b, slot, d), slot, NULL), slot, d)

(* A placeholder of a Slot mounts below <React.StrictMode>. *)
MountStrict(slot) ==
    /\ engine = "react"
    /\ \/ slot[1] = "shared" /\ slot[2] \in slots
       \/ slot[1] = "custom" /\ slot[2] \in ctrls
    /\ Len(ph) < MaxPh
    /\ ph' = Append(ph, NewPlaceholder(slot))
    /\ _slot' = IF slot[1] = "custom"
                THEN [_slot EXCEPT ![slot[2]] = Access(@)]
                ELSE _slot
    /\ LET b == [root |-> root, _dispatch |-> _dispatch]
           after == IF IN_BROWSER THEN EffectReplay(b, slot, Len(ph) + 1) ELSE b
       IN  /\ root' = after.root
           /\ _dispatch' = after._dispatch
    /\ UNCHANGED <<engine, IN_BROWSER, SHARED, slots, ctrls, inst>>

(* `controller.Slot` is read without being mounted. *)
GetSlot(c) ==
    /\ c \in ctrls
    /\ _slot[c].created < MaxGet
    /\ _slot' = [_slot EXCEPT ![c] = Access(@)]
    /\ UNCHANGED <<engine, IN_BROWSER, root, SHARED, slots, ctrls, _dispatch, ph, inst>>

(* Mutant: the binding of the placeholder mounted first is kept. *)
MountCustomKeepsFirst(c) ==
    /\ c \in ctrls
    /\ Len(ph) < MaxPh
    /\ _slot' = [_slot EXCEPT ![c] = Access(@)]
    /\ ph' = Append(ph, NewPlaceholder(<<"custom", c>>))
    /\ _dispatch' = IF IN_BROWSER /\ _dispatch[c] = NULL
                    THEN [_dispatch EXCEPT ![c] = Len(ph) + 1]
                    ELSE _dispatch
    /\ UNCHANGED <<engine, IN_BROWSER, root, SHARED, slots, ctrls, inst>>

(* `<controller.Slot/>`: the Slot is read and a placeholder of it mounts, *)
(* `this._dispatch = dispatch`.                                            *)
MountCustom(c) ==
    /\ c \in ctrls
    /\ Len(ph) < MaxPh
    /\ _slot' = [_slot EXCEPT ![c] = Access(@)]
    /\ ph' = Append(ph, NewPlaceholder(<<"custom", c>>))
    /\ _dispatch' = IF IN_BROWSER
                    THEN [_dispatch EXCEPT ![c] = Len(ph) + 1]
                    ELSE _dispatch
    /\ UNCHANGED <<engine, IN_BROWSER, root, SHARED, slots, ctrls, inst>>

(* A placeholder unmounts: the effect cleanup / onBeforeUnmount calls      *)
(* setDispatch(null).  The engine drops the updates still queued for it.   *)
Unmount(p) ==
    /\ p \in Placeholders
    /\ ph[p].mounted
    /\ ph' = [ph EXCEPT ![p].mounted = FALSE, ![p].queue = <<>>]
    /\ IF ~IN_BROWSER
       THEN UNCHANGED <<root, _dispatch>>
       ELSE IF ph[p].slot[1] = "shared"
            THEN /\ root' = [root EXCEPT ![SHARED].dispatch = NOOP]
                 /\ UNCHANGED _dispatch
            ELSE /\ _dispatch' = [_dispatch EXCEPT ![ph[p].slot[2]] = NULL]
                 /\ UNCHANGED root
    /\ UNCHANGED <<_slot, engine, IN_BROWSER, SHARED, slots, ctrls, inst>>

(* Properties are named values.  A value is known by who made it: the     *)
(* caller, or render() (n is the instance whose promise a settle function *)
(* belongs to, resp. the number taken from the counter).                  *)
PropNames == {"title", "resolve", "reject", "key"}

ByCaller == [by |-> "caller", n |-> 0]

ByRender(n) == [by |-> "render", n |-> n]

(* What a caller may pass to render(): any of the names, its own values. *)
CallerProps == {[name \in D |-> ByCaller] : D \in SUBSET PropNames}

(* render() called without an argument: spreading undefined adds nothing. *)
NoProps == [name \in {} |-> ByCaller]

(* Mutant: `{ resolve, reject, key, ...props }`, the caller's values win. *)
SpreadFirstWins(a, b) ==
    [name \in DOMAIN a \cup DOMAIN b |->
        IF name \in DOMAIN a THEN a[name] ELSE b[name]]

(* `{ ...a, ...b }`: of a name both have, the later value stays. *)
Spread(a, b) ==
    [name \in DOMAIN a \cup DOMAIN b |->
        IF name \in DOMAIN b THEN b[name] ELSE a[name]]

(* `{ ...props, resolve, reject, key: SHARED.count++ }` in the executor *)
(* of the promise of instance i.                                        *)
MergedProps(props, i) ==
    Spread(props, [resolve |-> ByRender(i), reject |-> ByRender(i),
                   key |-> ByRender(AllocKey)])

(* PromiseComponent.render(props), for at most n calls per behaviour *)
RenderProps(c, n, props) ==
    /\ c \in ctrls
    /\ Len(inst) < n
    /\ LET d == TargetDispatch(c)
           i == Len(inst) + 1
       IN  /\ inst' = Append(inst, [ctrl |-> c, key |-> AllocKey, entry |-> SHARED,
                                    dispatch |-> d,
                                    state |-> "pending", value |-> 0,
                                    ran |-> 0, destroys |-> 0, got |-> <<>>,
                                    first |-> <<>>, other |-> FALSE,
                                    derived |-> "pending",
                                    given |-> props,
                                    props |-> MergedProps(props, i)])
           /\ root' = [root EXCEPT ![SHARED].count = @ + 1]
           /\ ph' = Dispatch(ph, d, AppendUpdate(i))
    /\ UNCHANGED <<_slot, engine, IN_BROWSER, SHARED, slots, ctrls, _dispatch>>

RenderWithin(c, n) == RenderProps(c, n, NoProps)

Render(c) == RenderWithin(c, MaxInst)

(* The view unit calls props.resolve(v) or props.reject(v).  The fields      *)
(* first and other record the calls that were made (the first one, whether   *)
(* a later one differed from it), not what the promise did with them.        *)
Call(i, kind, v) ==
    /\ i \in Instances
    /\ inst' = [inst EXCEPT ![i] =
                  [Settle(@, kind, v) EXCEPT
                      !.first = IF @ = <<>> THEN <<kind, v>> ELSE @,
                      !.other = @ \/ (inst[i].first # <<>> /\ inst[i].first # <<kind, v>>)]]
    /\ UNCHANGED <<_slot, engine, IN_BROWSER, root, SHARED, slots, ctrls, _dispatch, ph>>

Resolve(i, v) == Call(i, "fulfilled", v)
Reject(i, v)  == Call(i, "rejected", v)

(* The view unit of instance i calls the `resolve` or the `reject` it was *)
(* given in its properties: a function render() made settles its         *)
(* promise, a function of the caller's does not.                         *)
CallProp(i, kind, v) ==
    /\ i \in Instances
    /\ LET f == inst[i].props[IF kind = "fulfilled" THEN "resolve" ELSE "reject"]
       IN  IF f.by = "render"
           THEN Call(f.n, kind, v)
           ELSE UNCHANGED vars

(* The continuation render() attached: promise.finally(...) in React,    *)
(* promise.then(destroy, destroy) in Vue.                                *)
Destroy(i) ==
    /\ i \in Instances
    /\ NextReaction(inst[i]) = "destroy"
    /\ IF RunsDestroy(inst[i])
       THEN /\ ph' = Dispatch(ph, DestroyDispatch(i), FilterUpdate(i))
            /\ inst' = [inst EXCEPT ![i].ran = @ + 1, ![i].destroys = @ + 1,
                                    ![i].derived = DerivedSettle(inst[i])]
       ELSE /\ ph' = ph
            /\ inst' = [inst EXCEPT ![i].ran = @ + 1]
    /\ UNCHANGED <<_slot, engine, IN_BROWSER, root, SHARED, slots, ctrls, _dispatch>>

(* The caller's continuation on the promise render() returned receives   *)
(* the promise's outcome.                                                *)
Resume(i) ==
    /\ i \in Instances
    /\ NextReaction(inst[i]) = "caller"
    /\ inst' = [inst EXCEPT ![i].ran = @ + 1,
                            ![i].got = Append(@, <<inst[i].state, inst[i].value>>)]
    /\ UNCHANGED <<_slot, engine, IN_BROWSER, root, SHARED, slots, ctrls, _dispatch, ph>>

(* React re-renders a placeholder: the queued updates are applied in order. *)
Flush(p) ==
    /\ p \in Placeholders
    /\ ph[p].mounted
    /\ ph[p].queue # <<>>
    /\ ph' = [ph EXCEPT ![p].components = ListOf(p), ![p].queue = <<>>]
    /\ UNCHANGED <<_slot, engine, IN_BROWSER, root, SHARED, slots, ctrls, _dispatch, inst>>

(* The application changes the value it provides above a mounted Slot. *)
ChangeTheme(p, t) ==
    /\ p \in Placeholders
    /\ ph[p].mounted
    /\ ph[p].theme # t
    /\ ph' = [ph EXCEPT ![p].theme = t]
    /\ UNCHANGED <<_slot, engine, IN_BROWSER, root, SHARED, slots, ctrls, _dispatch, inst>>

(* Mutant: the Slot renders nothing. *)
SlotOutputNothing(p) == <<>>

(* What a mounted Slot renders as its children: `return components` /     *)
(* `return () => components.value`, and null outside the browser.         *)
SlotOutput(p) == IF IN_BROWSER THEN ph[p].components ELSE <<>>

(* useContext / inject inside instance i: the engine hands a rendered      *)
(* element the value provided above the position it is rendered at, and    *)
(* re-renders it when that value changes.                                  *)
useContext(i) ==
    LET at == {p \in Placeholders : ph[p].mounted /\ i \in Range(SlotOutput(p))}
    IN  {ph[p].theme : p \in at}

Next ==
    \/ \E p \in 1..MaxPh, t \in Themes : ChangeTheme(p, t)
    \/ \E c \in Ctrl : GetSlot(c)
    \/ \E appId \in AppIds : CreateSharedSlot(appId)
    \/ \E c \in Ctrl : Construct(c)
    \/ \E appId \in AppIds : MountShared(appId)
    \/ \E c \in Ctrl : MountCustom(c)
    \/ \E slot \in SlotIds : MountStrict(slot)
    \/ \E p \in 1..MaxPh : Unmount(p)
    \/ \E c \in Ctrl : Render(c)
    \/ \E i \in 1..MaxInst, v \in Values : Resolve(i, v)
    \/ \E i \in 1..MaxInst, v \in Values : Reject(i, v)
    \/ \E i \in 1..MaxInst : Destroy(i)
    \/ \E i \in 1..MaxInst : Resume(i)
    \/ \E p \in 1..MaxPh : Flush(p)

Spec == Init /\ [][Next]_vars

-----------------------------------------------------------------------------
(* Scenarios.  Next is the whole program; the specifications below are    *)
(* the parts of it that are checked exhaustively.                          *)

(* One controller, the default SharedSlot and the controller's own Slot:  *)
(* the life of an instance from render() to the caller's continuation.    *)
NextLife ==
    \/ MountShared("")
    \/ MountCustom("c1")
    \/ \E p \in 1..MaxPh : Unmount(p)
    \/ Render("c1")
    \/ \E i \in 1..MaxInst, v \in Values : Resolve(i, v)
    \/ \E i \in 1..MaxInst, v \in Values : Reject(i, v)
    \/ \E i \in 1..MaxInst : Destroy(i)
    \/ \E i \in 1..MaxInst : Resume(i)
    \/ \E p \in 1..MaxPh : Flush(p)

SpecLife == Init /\ [][NextLife]_vars

(* A view unit that settles once. *)
Once(i) == i \in Instances /\ inst[i].state = "pending"

(* The life of instances whose view units settle once, by resolve or by    *)
(* reject, under the schedulers' guarantees: the microtask queue drains,   *)
(* so an enabled promise reaction runs, and the engine re-renders a        *)
(* placeholder that has a state update queued.                             *)
NextSettle ==
    \/ MountShared("")
    \/ MountCustom("c1")
    \/ \E p \in 1..MaxPh : Unmount(p)
    \/ Render("c1")
    \/ \E i \in 1..MaxInst : Once(i) /\ Resolve(i, 41)
    \/ \E i \in 1..MaxInst : Once(i) /\ Reject(i, 42)
    \/ \E i \in 1..MaxInst : Destroy(i)
    \/ \E i \in 1..MaxInst : Resume(i)
    \/ \E p \in 1..MaxPh : Flush(p)

FairSettle ==
    /\ \A i \in 1..MaxInst : WF_vars(Destroy(i)) /\ WF_vars(Resume(i))
    /\ \A p \in 1..MaxPh : WF_vars(Flush(p))

SpecSettleFair == Init /\ [][NextSettle]_vars /\ FairSettle

(* Successive test cases on the module-level state: each mounts the app    *)
(* with the default SharedSlot after the previous one was unmounted.       *)
NoneMounted == \A p \in Placeholders : ~ph[p].mounted

NextRemount ==
    \/ NoneMounted /\ MountShared("")
    \/ \E p \in 1..MaxPh : Unmount(p)
    \/ Render("c1")
    \/ \E i \in 1..MaxInst, v \in Values : Once(i) /\ Resolve(i, v)
    \/ \E i \in 1..MaxInst, v \in Values : Once(i) /\ Reject(i, v)
    \/ \E i \in 1..MaxInst : Destroy(i)
    \/ \E i \in 1..MaxInst : Resume(i)
    \/ \E p \in 1..MaxPh : Flush(p)

SpecRemount == Init /\ [][NextRemount]_vars

(* The registry, in a browser and outside one: `IN_BROWSER` is fixed when  *)
(* the module is loaded.                                                   *)
InitAnyEnv ==
    /\ engine \in {"react", "vue"}
    /\ IN_BROWSER \in BOOLEAN
    /\ root = createShared(<<>>, "")
    /\ SHARED = ""
    /\ slots = {""}
    /\ ctrls = {"c1"}
    /\ _dispatch = [c \in Ctrl |-> NULL]
    /\ _slot = [c \in Ctrl |-> IF c = "c1" THEN ConstructedSlot ELSE NoSlot]
    /\ ph = <<>>
    /\ inst = <<>>

NextRegistry ==
    \/ \E appId \in AppIds : CreateSharedSlot(appId)
    \/ \E appId \in AppIds : MountShared(appId)
    \/ MountCustom("c1")
    \/ \E p \in 1..MaxPh : Unmount(p)
    \/ Render("c1")

SpecRegistry == InitAnyEnv /\ [][NextRegistry]_vars

(* Server-side rendering: no window.  A Slot is `() => null`, it has no    *)
(* state and nothing re-renders it.                                        *)
InitServer ==
    /\ engine \in {"react", "vue"}
    /\ IN_BROWSER = FALSE
    /\ root = createShared(<<>>, "")
    /\ SHARED = ""
    /\ slots = {""}
    /\ ctrls = {"c1"}
    /\ _dispatch = [c \in Ctrl |-> NULL]
    /\ _slot = [c \in Ctrl |-> IF c = "c1" THEN ConstructedSlot ELSE NoSlot]
    /\ ph = <<>>
    /\ inst = <<>>

NextServer ==
    \/ \E appId \in {"", "A"} : CreateSharedSlot(appId)
    \/ \E c \in Ctrl : Construct(c)
    \/ \E appId \in {"", "A"} : MountShared(appId)
    \/ \E c \in Ctrl : MountCustom(c)
    \/ \E p \in 1..MaxPh : Unmount(p)
    \/ \E c \in Ctrl : Render(c)

SpecServer == InitServer /\ [][NextServer]_vars

(* The test application: a provider whose value changes, the default      *)
(* SharedSlot below it, a view unit that reads the provided value.         *)
NextContext ==
    \/ MountShared("")
    \/ \E p \in 1..MaxPh : Unmount(p)
    \/ \E p \in 1..MaxPh, t \in Themes : ChangeTheme(p, t)
    \/ Render("c1")
    \/ \E i \in 1..MaxInst : Once(i) /\ Resolve(i, 41)
    \/ \E i \in 1..MaxInst : Destroy(i)
    \/ \E i \in 1..MaxInst : Resume(i)
    \/ \E p \in 1..MaxPh : Flush(p)

SpecContext == Init /\ [][NextContext]_vars

(* Three instances in the default SharedSlot, settling in any order. *)
NextOrder ==
    \/ MountShared("")
    \/ \E p \in 1..MaxPh : Unmount(p)
    \/ RenderWithin("c1", MaxOrder)
    \/ \E i \in 1..MaxOrder : Once(i) /\ Resolve(i, 41)
    \/ \E i \in 1..MaxOrder : Destroy(i)
    \/ \E i \in 1..MaxOrder : Resume(i)
    \/ \E p \in 1..MaxPh : Flush(p)

SpecOrder == Init /\ [][NextOrder]_vars

(* Controllers whose Slot is read, mounted or left alone. *)
NextSlot ==
    \/ \E c \in Ctrl : Construct(c)
    \/ \E c \in Ctrl : GetSlot(c)
    \/ MountShared("")
    \/ \E c \in Ctrl : MountCustom(c)
    \/ \E p \in 1..MaxPh : Unmount(p)
    \/ \E c \in Ctrl : Render(c)

SpecSlot == Init /\ [][NextSlot]_vars

(* The React example application: the app is rendered below              *)
(* <React.StrictMode>, so every Slot placeholder mounts with the effect    *)
(* replay; the schedulers' guarantees are those of FairSettle.             *)
InitReact == Init /\ engine = "react"

NextStrict ==
    \/ MountStrict(<<"shared", "">>)
    \/ MountStrict(<<"custom", "c1">>)
    \/ \E p \in 1..MaxPh : Unmount(p)
    \/ Render("c1")
    \/ \E i \in 1..MaxInst : Once(i) /\ Resolve(i, 41)
    \/ \E i \in 1..MaxInst : Destroy(i)
    \/ \E i \in 1..MaxInst : Resume(i)
    \/ \E p \in 1..MaxPh : Flush(p)

SpecStrict == InitReact /\ [][NextStrict]_vars /\ FairSettle

(* render() with every shape of caller properties; the view units settle *)
(* through the properties they were given.                                *)
NextProps ==
    \/ MountShared("")
    \/ \E props \in CallerProps : RenderProps("c1", MaxInst, props)
    \/ \E i \in 1..MaxInst : Once(i) /\ CallProp(i, "fulfilled", 41)
    \/ \E i \in 1..MaxInst : Once(i) /\ CallProp(i, "rejected", 42)
    \/ \E i \in 1..MaxInst : Destroy(i)
    \/ \E i \in 1..MaxInst : Resume(i)
    \/ \E p \in 1..MaxPh : Flush(p)

SpecProps == Init /\ [][NextProps]_vars

(* Two controllers, custom and shared Slots, the registry rebound to "A". *)
NextRoute ==
    \/ \E appId \in {"", "A"} : CreateSharedSlot(appId)
    \/ \E c \in Ctrl : Construct(c)
    \/ \E appId \in {"", "A"} : MountShared(appId)
    \/ \E c \in Ctrl : MountCustom(c)
    \/ \E p \in 1..MaxPh : Unmount(p)
    \/ \E c \in Ctrl : Render(c)
    \/ \E i \in 1..MaxInst : Once(i) /\ Resolve(i, 41)
    \/ \E i \in 1..MaxInst : Destroy(i)
    \/ \E i \in 1..MaxInst : Resume(i)
    \/ \E p \in 1..MaxPh : Flush(p)

SpecRoute == Init /\ [][NextRoute]_vars

(* One controller without a custom Slot, every keyed shared Slot. *)
NextShared ==
    \/ \E appId \in AppIds : CreateSharedSlot(appId)
    \/ \E appId \in AppIds : MountShared(appId)
    \/ \E p \in 1..MaxPh : Unmount(p)
    \/ Render("c1")
    \/ \E i \in 1..MaxInst : Once(i) /\ Resolve(i, 41)
    \/ \E i \in 1..MaxInst : Destroy(i)
    \/ \E i \in 1..MaxInst : Resume(i)
    \/ \E p \in 1..MaxPh : Flush(p)

SpecShared == Init /\ [][NextShared]_vars

-----------------------------------------------------------------------------
(* Vocabulary of the properties.                                           *)
(*   InList(i, p): instance i is in the list of placeholder p, its queued  *)
(*                 updates applied.                                        *)
(*   Live(i, p):   ... and p is mounted, so the list is a Slot's list.     *)
(*   Shown(i, p):  i is in the state the mounted placeholder p renders.    *)
InList(i, p) == i \in Range(ListOf(p))
Live(i, p)   == ph[p].mounted /\ InList(i, p)
Shown(i, p)  == ph[p].mounted /\ i \in Range(ph[p].components)

Occurrences(s, x) == Cardinality({k \in 1..Len(s) : s[k] = x})

Routed(i)  == inst[i].dispatch # NOOP           \* render() appended i to a placeholder
Pending(i) == inst[i].state = "pending"
Resumed(i) == inst[i].got # <<>>                \* the caller's continuation has run

(* C1 as stated: exactly-once removal. Every instance render() appended to a *)
(* Slot is in that Slot's list until its first resolve/reject, absent once   *)
(* the destroy continuation has run, and never twice in the list.            *)
C1_ExactlyOnceRemoval ==
    \A i \in Instances :
        Routed(i) =>
            /\ (Pending(i) => Live(i, inst[i].dispatch))
            /\ (inst[i].destroys > 0 => ~Live(i, inst[i].dispatch))
            /\ Occurrences(ListOf(inst[i].dispatch), i) <= 1

(* C1 amended: for as long as the placeholder render() appended the instance *)
(* to stays mounted, the instance is in its list from render() until the     *)
(* destroy continuation of its first resolve/reject has run and absent from  *)
(* then on, it is never twice in the list and in no other list.              *)
C1_ExactlyOnceRemovalWhileMounted ==
    \A i \in Instances :
        (Routed(i) /\ ph[inst[i].dispatch].mounted) =>
            /\ (inst[i].destroys = 0 => InList(i, inst[i].dispatch))
            /\ (inst[i].destroys > 0 => ~InList(i, inst[i].dispatch))
            /\ Occurrences(ListOf(inst[i].dispatch), i) <= 1
            /\ \A p \in Placeholders : InList(i, p) => p = inst[i].dispatch

(* One instance settled and removed while a later one is still in the same list. *)
C1_Witness ==
    \E i, j \in Instances :
        /\ i < j
        /\ Routed(i) /\ inst[j].dispatch = inst[i].dispatch
        /\ ph[inst[i].dispatch].mounted
        /\ inst[i].destroys = 1 /\ ~InList(i, inst[i].dispatch)
        /\ Pending(j) /\ InList(j, inst[j].dispatch)

(* C3: settle-once. Whatever resolve/reject calls a view unit makes, the     *)
(* caller's continuation runs at most once, with the kind and value of the   *)
(* first call, and the removal of the instance is dispatched exactly once.   *)
C3_SettleOnce ==
    \A i \in Instances :
        /\ Len(inst[i].got) <= 1
        /\ inst[i].destroys <= 1
        /\ Resumed(i) => (inst[i].got[1] = inst[i].first /\ inst[i].destroys = 1)

(* A view unit made a second, different call, and the caller still got the first. *)
C3_Witness ==
    \E i \in Instances :
        /\ inst[i].other
        /\ inst[i].got = <<inst[i].first>>
        /\ inst[i].destroys = 1

(* C4: the promise render() returns fulfils with the value the instance  *)
(* passed to resolve first.                                              *)
C4_ResolveValue ==
    \A i \in Instances :
        \A v \in Values :
            (Resumed(i) /\ inst[i].first = <<"fulfilled", v>>) =>
                inst[i].got = << <<"fulfilled", v>> >>

(* Two callers received two different resolved values. *)
C4_Witness ==
    \E i, j \in Instances :
        /\ inst[i].first = <<"fulfilled", 41>> /\ inst[i].got = << <<"fulfilled", 41>> >>
        /\ inst[j].first = <<"fulfilled", 42>> /\ inst[j].got = << <<"fulfilled", 42>> >>

(* C5: a rejection reaches the caller with the reason passed to reject,  *)
(* and the instance is removed from its list as on resolve.              *)
C5_RejectVerbatim ==
    \A i \in Instances :
        \A v \in Values :
            (Resumed(i) /\ inst[i].first = <<"rejected", v>>) =>
                /\ inst[i].got = << <<"rejected", v>> >>
                /\ inst[i].destroys = 1
                /\ \A p \in Placeholders : ph[p].mounted => ~InList(i, p)

(* A rejected instance left the mounted list it was in; the caller has the reason. *)
C5_Witness ==
    \E i \in Instances :
        /\ Routed(i) /\ ph[inst[i].dispatch].mounted
        /\ inst[i].got = << <<"rejected", 42>> >>
        /\ ~InList(i, inst[i].dispatch)

(* C6 as stated: when the caller's continuation runs, the Slot already   *)
(* reflects the list without the instance.                               *)
C6_SlotReflectsRemovalBeforeResume ==
    \A i \in Instances :
        (NextReaction(inst[i]) = "caller" \/ Resumed(i)) =>
            /\ inst[i].destroys = 1
            /\ \A p \in Placeholders : ~Shown(i, p)

(* C6 amended: when the caller's continuation runs, the removal has been  *)
(* dispatched: the instance is not in its Slot's list with the queued     *)
(* updates applied, and under Vue it is not in the placeholder's state    *)
(* either. Under React the placeholder's state may still hold it until    *)
(* the engine applies the queued update.                                  *)
C6_RemovalDispatchedBeforeResume ==
    \A i \in Instances :
        (NextReaction(inst[i]) = "caller" \/ Resumed(i)) =>
            /\ inst[i].destroys = 1
            /\ \A p \in Placeholders :
                   ph[p].mounted =>
                       /\ ~InList(i, p)
                       /\ (engine = "vue" => ~Shown(i, p))

(* Round trip: the only instance resolved 42, the caller has it, the list is empty. *)
C6_Witness ==
    \E i \in Instances :
        /\ Len(inst) = 1
        /\ Routed(i) /\ ph[inst[i].dispatch].mounted
        /\ inst[i].got = << <<"fulfilled", 42>> >>
        /\ ListOf(inst[i].dispatch) = <<>>

-----------------------------------------------------------------------------
(* Steps, as seen from outside. *)
ListOfNext(p) == ApplyAll(ph'[p].queue, ph'[p].components)

RenderStep(c) == Len(inst') = Len(inst) + 1 /\ inst'[Len(inst')].ctrl = c

MountStep(slot) == Len(ph') = Len(ph) + 1 /\ ph'[Len(ph')].slot = slot

UnmountStep(slot) ==
    \E p \in Placeholders : ph[p].slot = slot /\ ph[p].mounted /\ ~ph'[p].mounted

CustomMounted(c) ==
    \E p \in Placeholders : ph[p].mounted /\ ph[p].slot = <<"custom", c>>

(* C2 as stated: the instances of concurrent render() calls on one        *)
(* controller that are live in mounted Slots carry distinct keys, and an  *)
(* instance that is pending in a mounted Slot is in that Slot's list      *)
(* whatever happened to the others.                                       *)
C2_Independence ==
    \A i, j \in Instances :
        (i # j /\ inst[i].ctrl = inst[j].ctrl) =>
            /\ (/\ Routed(i) /\ Live(i, inst[i].dispatch)
                /\ Routed(j) /\ Live(j, inst[j].dispatch)) => inst[i].key # inst[j].key
            /\ (Pending(j) /\ Routed(j) /\ ph[inst[j].dispatch].mounted)
                   => InList(j, inst[j].dispatch)

(* C7 as stated: with no custom Slot mounted render() goes to the current   *)
(* entry's dispatch; while the controller's custom Slot is mounted every    *)
(* render() appends to the custom Slot's list; a mount moves no instance.   *)
C7_FallbackRouting ==
    [][ /\ \A c \in Ctrl :
             RenderStep(c) =>
                 LET i == Len(inst')
                     t == inst'[i].dispatch
                 IN  IF CustomMounted(c)
                     THEN /\ t \in Placeholders
                          /\ ph[t].slot = <<"custom", c>>
                          /\ i \in Range(ListOfNext(t))
                     ELSE t = root[SHARED].dispatch
        /\ Len(ph') > Len(ph) =>
               \A j \in Instances, p \in Placeholders :
                   InList(j, p) => j \in Range(ListOfNext(p))
      ]_vars

(* C7, by binding: render() on a controller with a null _dispatch goes to the *)
(* current entry's dispatch; while _dispatch is bound, that is from the     *)
(* mount of a placeholder of the custom Slot until the next unmount of any  *)
(* placeholder of that Slot, render() appends to the list of the mounted    *)
(* placeholder bound last; a mount moves no instance.                       *)
C7_RoutingByBinding ==
    [][ /\ \A c \in Ctrl :
             RenderStep(c) =>
                 LET i == Len(inst')
                     t == inst'[i].dispatch
                 IN  IF _dispatch[c] # NULL
                     THEN /\ t = _dispatch[c]
                          /\ ph[t].mounted
                          /\ ph[t].slot = <<"custom", c>>
                          /\ i \in Range(ListOfNext(t))
                     ELSE /\ t = root[SHARED].dispatch
                          /\ t # NOOP => ph[t].slot[1] = "shared"
                          /\ (t # NOOP /\ ph[t].mounted) => i \in Range(ListOfNext(t))
        /\ Len(ph') > Len(ph) =>
               \A j \in Instances, p \in Placeholders :
                   InList(j, p) => j \in Range(ListOfNext(p))
      ]_vars

(* One controller, an instance pending in a shared placeholder and a later *)
(* one in the controller's custom placeholder.                             *)
C7_Witness ==
    \E i, j \in Instances :
        /\ i < j /\ inst[i].ctrl = inst[j].ctrl
        /\ Routed(i) /\ Routed(j)
        /\ ph[inst[i].dispatch].slot[1] = "shared"
        /\ ph[inst[j].dispatch].slot = <<"custom", inst[j].ctrl>>
        /\ Live(i, inst[i].dispatch) /\ Live(j, inst[j].dispatch)

(* C8 as stated: the placeholders of createSharedSlot('A') and of         *)
(* createSharedSlot('B') are isolated: mounting or unmounting one of them *)
(* leaves the dispatch of the other's entry alone, and an instance is     *)
(* shown by no placeholder but the one it was appended to.                *)
C8_KeyedIsolation ==
    [][ /\ \A a \in {"A", "B"} :
             (MountStep(<<"shared", a>>) \/ UnmountStep(<<"shared", a>>)) =>
                 \A k \in ({"A", "B"} \ {a}) \cap DOMAIN root :
                     root'[k].dispatch = root[k].dispatch
        /\ \A i \in Instances, p \in Placeholders :
               Shown(i, p) => p = inst[i].dispatch
      ]_vars

(* C9 as stated: no two instances in the list of one Slot carry the same key. *)
C9_KeyUniquePerList ==
    \A p \in Placeholders :
        \A i, j \in Range(ListOf(p)) \cup Range(ph[p].components) :
            i # j => inst[i].key # inst[j].key

-----------------------------------------------------------------------------
(* C11 as stated: no external removal. An instance that is in a Slot's list *)
(* stays in it over every step unless its own destroy continuation ran in   *)
(* that step: no render, no settlement of another instance, no Slot mount   *)
(* or unmount, no createSharedSlot and no clone removes it.                 *)
C11_NoExternalRemoval ==
    [][ \A i \in Instances, p \in Placeholders :
            (Live(i, p) /\ inst'[i].destroys = inst[i].destroys) =>
                (ph'[p].mounted /\ i \in Range(ListOfNext(p)))
      ]_vars

(* C11 amended: the same over every step that leaves the instance's own    *)
(* placeholder mounted; the unmount of that placeholder discards its list, *)
(* pending instances included.                                             *)
C11_NoExternalRemovalWhileMounted ==
    [][ \A i \in Instances, p \in Placeholders :
            (Live(i, p) /\ ph'[p].mounted /\ inst'[i].destroys = inst[i].destroys) =>
                i \in Range(ListOfNext(p))
      ]_vars

(* A pending instance is still in its list after a later instance of the    *)
(* same list settled and was removed, another placeholder was mounted and   *)
(* unmounted, a second controller was made and the registry was rebound.    *)
C11_Witness ==
    \E i, j \in Instances, q \in Placeholders :
        /\ i < j /\ Routed(i) /\ inst[j].dispatch = inst[i].dispatch
        /\ Pending(i) /\ Live(i, inst[i].dispatch)
        /\ inst[j].destroys = 1 /\ Resumed(j)
        /\ q # inst[i].dispatch /\ ~ph[q].mounted
        /\ SHARED = "A" /\ "c2" \in ctrls

-----------------------------------------------------------------------------
Settled(i) == i \in Instances /\ inst[i].state # "pending"

Gone(i) == \A p \in Placeholders : ~Live(i, p) /\ ~Shown(i, p)

(* C12: destroy after use. If an instance calls resolve or reject, then     *)
(* whichever of the two it was, the instance is eventually in no Slot's     *)
(* list, queued or rendered, and the caller's continuation eventually runs. *)
C12_DestroyAfterUse ==
    \A i \in 1..MaxInst : Settled(i) ~> (i \in Instances /\ Resumed(i) /\ Gone(i))

(* One placeholder showed two instances; one resolved, one rejected, both  *)
(* callers ran and the placeholder, still mounted, shows neither.          *)
C12_Witness ==
    \E i, j \in Instances :
        /\ Routed(i) /\ inst[j].dispatch = inst[i].dispatch
        /\ ph[inst[i].dispatch].mounted
        /\ inst[i].state = "fulfilled" /\ inst[j].state = "rejected"
        /\ Resumed(i) /\ Resumed(j) /\ Gone(i) /\ Gone(j)
        /\ ph[inst[i].dispatch].components = <<>>

-----------------------------------------------------------------------------
(* The instances render() appended to placeholder p whose removal has not *)
(* been dispatched, in the order of their render() calls.                 *)
Remaining(p) ==
    SelectSeq([k \in 1..Len(inst) |-> k],
              LAMBDA k : inst[k].dispatch = p /\ inst[k].destroys = 0)

(* C13: no lost update. Whatever the order in which the instances of one   *)
(* Slot settle, and whether or not the Slot re-rendered in between, the    *)
(* Slot's list is exactly the instances appended to it minus those whose   *)
(* removal ran, and a caller that resumed received its own instance's      *)
(* result.                                                                 *)
C13_NoLostUpdate ==
    /\ \A p \in Placeholders : ph[p].mounted => ListOf(p) = Remaining(p)
    /\ \A i \in Instances :
           Resumed(i) => inst[i].got = << <<inst[i].state, inst[i].value>> >>
                         /\ inst[i].got[1] = inst[i].first

(* Two instances shown by one React placeholder settled with different     *)
(* values, the later one first, both before the placeholder re-rendered:   *)
(* both removals are queued, both callers have their own value.            *)
C13_Witness ==
    \E p \in Placeholders :
        /\ engine = "react" /\ ph[p].mounted
        /\ ph[p].components = <<1, 2>>
        /\ ph[p].queue = <<FilterUpdate(2), FilterUpdate(1)>>
        /\ ListOf(p) = <<>>
        /\ inst[1].got = << <<"fulfilled", 41>> >>
        /\ inst[2].got = << <<"fulfilled", 42>> >>

-----------------------------------------------------------------------------
ConstructStep(c) == c \notin ctrls /\ c \in ctrls'

(* C14: clone() makes a controller whose custom Slot binding starts unbound  *)
(* and is its own: mounting or unmounting a placeholder of one controller's  *)
(* Slot leaves the binding and the render() target of every other controller *)
(* as they were, making a controller changes no other controller's binding,  *)
(* and no instance is ever in the custom Slot list of another controller.    *)
C14_CloneIndependent ==
    [][ /\ \A c \in Ctrl :
             ConstructStep(c) =>
                 /\ _dispatch'[c] = NULL
                 /\ \A d \in Ctrl \ {c} :
                        /\ _dispatch'[d] = _dispatch[d]
                        /\ TargetDispatch(d)' = TargetDispatch(d)
        /\ \A c \in Ctrl :
             (MountStep(<<"custom", c>>) \/ UnmountStep(<<"custom", c>>)) =>
                 \A d \in Ctrl \ {c} :
                     /\ _dispatch'[d] = _dispatch[d]
                     /\ TargetDispatch(d)' = TargetDispatch(d)
        /\ \A i \in Instances, p \in Placeholders :
             ((InList(i, p) \/ i \in Range(ph[p].components)) /\ ph[p].slot[1] = "custom")
                 => ph[p].slot[2] = inst[i].ctrl
      ]_vars

(* The original's Slot was mounted first, then the clone's; the clone's    *)
(* render() went to the clone's Slot and the original's later render() to  *)
(* the original's Slot.                                                    *)
C14_Witness ==
    /\ Len(ph) = 2 /\ Len(inst) = 2
    /\ ph[1].slot = <<"custom", "c1">> /\ ph[2].slot = <<"custom", "c2">>
    /\ inst[1].ctrl = "c2" /\ Live(1, 2)
    /\ inst[2].ctrl = "c1" /\ Live(2, 1)

-----------------------------------------------------------------------------
(* C15: rebinding on remount. With the default SharedSlot mounted again    *)
(* after its previous placeholder was unmounted, render() appends to the   *)
(* placeholder that is mounted now, with a key above every earlier key;    *)
(* the instance stays in that list until its removal ran and is in no list *)
(* when its caller has resumed.                                            *)
C15_RebindOnRemount ==
    [][ /\ RenderStep("c1") =>
             LET i == Len(inst')
             IN  /\ \A p \in Placeholders :
                        ph[p].mounted =>
                            /\ inst'[i].dispatch = p
                            /\ i \in Range(ListOfNext(p))
                 /\ \A j \in Instances : inst[j].key < inst'[i].key
        /\ \A i \in Instances, p \in Placeholders :
               (ph[p].mounted /\ inst[i].dispatch = p) =>
                   (InList(i, p) <=> inst[i].destroys = 0)
        /\ \A i \in Instances, p \in Placeholders : Resumed(i) => ~Live(i, p)
      ]_vars

(* The first placeholder showed an instance and was unmounted; an instance *)
(* rendered into the second placeholder settled, left it, and its caller   *)
(* has the value.                                                          *)
C15_Witness ==
    /\ Len(ph) = 2 /\ ~ph[1].mounted /\ ph[2].mounted
    /\ Len(inst) = 2
    /\ inst[1].dispatch = 1 /\ inst[1].key = 0
    /\ inst[2].dispatch = 2 /\ inst[2].key = 1
    /\ inst[2].got = << <<"fulfilled", 42>> >>
    /\ ph[2].components = <<>> /\ ph[2].queue = <<>>

-----------------------------------------------------------------------------
(* C16 as stated: the default SharedSlot is bound to the entry of the empty *)
(* appId. Whatever createSharedSlot calls were made, mounting a placeholder *)
(* of it sets that entry's dispatch to the placeholder's setter, unmounting *)
(* one resets that entry's dispatch to the no-op, and either leaves the     *)
(* dispatch of every other entry alone.                                     *)
C16_DefaultSlotBoundToEmptyEntry ==
    [][ /\ MountStep(<<"shared", "">>) =>
             /\ root'[""].dispatch = Len(ph')
             /\ \A k \in DOMAIN root \ {""} : root'[k].dispatch = root[k].dispatch
        /\ UnmountStep(<<"shared", "">>) =>
             /\ root'[""].dispatch = NOOP
             /\ \A k \in DOMAIN root \ {""} : root'[k].dispatch = root[k].dispatch
      ]_vars

-----------------------------------------------------------------------------
(* What C17 says of one step: an entry that exists is still there with a   *)
(* counter that is not below what it was, whatever was accessed, and an    *)
(* entry that is new is {count: 0, dispatch: no-op}.                       *)
EntriesKept ==
    /\ \A k \in DOMAIN root :
           k \in DOMAIN root' /\ root'[k].count >= root[k].count
    /\ \A k \in DOMAIN root' \ DOMAIN root : root'[k] = NewShared

(* C17 as stated: createShared is idempotent per key, in every environment. *)
C17_GetOrCreateIdempotent == [][EntriesKept]_vars

(* C17 amended: createShared is idempotent per key where there is a window *)
(* to keep the entries on.                                                 *)
C17_GetOrCreateIdempotentInBrowser == [][IN_BROWSER => EntriesKept]_vars

(* In a browser, entry A was used for a key, then entry B, and             *)
(* createSharedSlot('A') got entry A back with its counter.                *)
C17_Witness ==
    /\ IN_BROWSER
    /\ SHARED = "A"
    /\ DOMAIN root = {"", "A", "B"}
    /\ root["A"].count = 1 /\ root["B"].count = 1
    /\ Len(inst) = 2 /\ inst[1].key = 0 /\ inst[2].key = 0

-----------------------------------------------------------------------------
(* C18: createSharedSlot(appId) with a non-empty appId makes the entry of   *)
(* appId the current one, createSharedSlot('') never does, and there is     *)
(* always exactly one current entry; render() on a controller with no       *)
(* custom Slot mounted goes to the current entry's dispatch, and every      *)
(* render() takes its key from the current entry's counter and from no      *)
(* other.                                                                   *)
C18_RebindCurrentEntry ==
    [][ /\ \A a \in AppIds \ {""} : (a \notin slots /\ a \in slots') => SHARED' = a
        /\ SHARED' # SHARED => (SHARED' # "" /\ SHARED' \in slots')
        /\ SHARED \in DOMAIN root /\ SHARED' \in DOMAIN root'
        /\ \A c \in Ctrl :
             RenderStep(c) =>
                 LET i == Len(inst')
                 IN  /\ ~CustomMounted(c) => inst'[i].dispatch = root[SHARED].dispatch
                     /\ inst'[i].key = root[SHARED].count
                     /\ root'[SHARED].count = root[SHARED].count + 1
                     /\ \A k \in DOMAIN root \ {SHARED} : root'[k].count = root[k].count
      ]_vars

(* The current entry went from '' to A to B: a render() under A and one   *)
(* under B each took key 0 from their entry, the second went to the       *)
(* placeholder bound in entry B, and the entry of '' was never used.      *)
C18_Witness ==
    /\ IN_BROWSER /\ SHARED = "B"
    /\ DOMAIN root = {"", "A", "B"}
    /\ root[""].count = 0 /\ root["A"].count = 1 /\ root["B"].count = 1
    /\ Len(inst) = 2
    /\ inst[2].dispatch # NOOP /\ inst[2].dispatch = root["B"].dispatch

-----------------------------------------------------------------------------
(* C19: without a window no Slot registers anything. Whatever Slots were   *)
(* mounted and whatever was rendered, the dispatch of every entry is the   *)
(* no-op, the custom binding of every controller is null, and no instance  *)
(* is in any list, queued or rendered.                                     *)
C19_NoRegistrationOnServer ==
    ~IN_BROWSER =>
        /\ \A k \in DOMAIN root : root[k].dispatch = NOOP
        /\ \A c \in Ctrl : _dispatch[c] = NULL
        /\ \A i \in Instances : inst[i].dispatch = NOOP
        /\ \A p \in Placeholders :
               ph[p].components = <<>> /\ ph[p].queue = <<>>

(* On the server a shared Slot and a custom Slot are mounted and both  *)
(* controllers have rendered.                                          *)
C19_Witness ==
    /\ ~IN_BROWSER
    /\ \E p, q \in Placeholders :
           /\ ph[p].mounted /\ ph[p].slot[1] = "shared"
           /\ ph[q].mounted /\ ph[q].slot[1] = "custom"
    /\ \E i, j \in Instances : inst[i].ctrl = "c1" /\ inst[j].ctrl = "c2"

-----------------------------------------------------------------------------
(* C20: context inheritance. An instance that its Slot shows is rendered   *)
(* below the placeholder render() appended it to and nowhere else: what it *)
(* observes is the value provided above that placeholder now, so after the *)
(* value changed, the new one.                                             *)
C20_ContextInheritance ==
    \A i \in Instances :
        /\ (Routed(i) /\ Shown(i, inst[i].dispatch)) =>
               useContext(i) = {ph[inst[i].dispatch].theme}
        /\ \A p \in Placeholders : Shown(i, p) => p = inst[i].dispatch

(* The first instance was shown and resolved, the provided value changed  *)
(* to light, the second instance is shown and observes light.             *)
C20_Witness ==
    /\ Len(inst) = 2
    /\ Resumed(1) /\ Gone(1)
    /\ Routed(2) /\ Shown(2, inst[2].dispatch)
    /\ inst[2].dispatch = inst[1].dispatch
    /\ ph[inst[2].dispatch].theme = "light"
    /\ useContext(2) = {"light"}

-----------------------------------------------------------------------------
(* The placeholders that unmount in this step. *)
Unmounting == {p \in Placeholders : ph[p].mounted /\ ~ph'[p].mounted}

(* C21 as stated: unmount deregisters. When a placeholder of a controller's *)
(* custom Slot unmounts, the controller's _dispatch is null afterwards and  *)
(* its next render() goes to the current entry's dispatch; when a           *)
(* placeholder of a shared Slot unmounts, the entry that holds its setter   *)
(* has the no-op afterwards.                                                *)
C21_UnmountDeregisters ==
    [][ \A p \in Unmounting :
            IF ph[p].slot[1] = "custom"
            THEN /\ _dispatch'[ph[p].slot[2]] = NULL
                 /\ TargetDispatch(ph[p].slot[2])' = root'[SHARED'].dispatch
            ELSE \A k \in DOMAIN root :
                     root[k].dispatch = p => root'[k].dispatch = NOOP
      ]_vars

-----------------------------------------------------------------------------
(* C22 as stated: the write to an unmounted Slot is guarded. No step, and  *)
(* so no removal continuation that fires after its placeholder unmounted,  *)
(* runs the update function of an unmounted placeholder: its list and its  *)
(* queue stay as the unmount left them.                                    *)
C22_UnmountedWriteGuarded ==
    [][ \A p \in Placeholders :
            ~ph[p].mounted =>
                /\ ph'[p].components = ph[p].components
                /\ ph'[p].queue = ph[p].queue
      ]_vars

-----------------------------------------------------------------------------
(* Instances are numbered in the order of their render() calls. *)
InInsertionOrder(s) == \A a, b \in 1..Len(s) : a < b => s[a] < s[b]

Without(s, i) == SelectSeq(s, LAMBDA item : item # i)

(* C23: a Slot's list is in insertion order. Every list, queued or         *)
(* rendered, is in the order of the render() calls; over a step the list   *)
(* of a placeholder that stays mounted is unchanged, or has the instance   *)
(* of this step's render() appended at its end, or has lost exactly the    *)
(* one instance whose removal ran in this step, the others keeping their   *)
(* places.                                                                 *)
C23_InsertionOrder ==
    [][ \A p \in Placeholders :
            /\ InInsertionOrder(ListOf(p)) /\ InInsertionOrder(ph[p].components)
            /\ InInsertionOrder(ListOfNext(p)) /\ InInsertionOrder(ph'[p].components)
            /\ ph'[p].mounted =>
                 \/ ListOfNext(p) = ListOf(p)
                 \/ /\ Len(inst') = Len(inst) + 1
                    /\ ListOfNext(p) = Append(ListOf(p), Len(inst'))
                 \/ \E i \in Instances :
                        /\ inst'[i].destroys = inst[i].destroys + 1
                        /\ InList(i, p)
                        /\ ListOfNext(p) = Without(ListOf(p), i)
      ]_vars

(* Three instances were in one list; the middle one settled and left, the *)
(* first and the third are there in that order.                           *)
C23_Witness ==
    \E p \in Placeholders :
        /\ ph[p].mounted
        /\ Len(inst) = 3
        /\ \A i \in Instances : inst[i].dispatch = p
        /\ inst[2].destroys = 1
        /\ ListOf(p) = <<1, 3>> /\ ph[p].components = <<1, 3>>

-----------------------------------------------------------------------------
(* C24: key allocation is a post-increment on the current entry. Every     *)
(* render(), on any controller and whatever its target, takes the current  *)
(* entry's counter as the key and raises that counter by one; no step      *)
(* lowers a counter; the keys taken from one entry are pairwise distinct   *)
(* and below its counter.                                                  *)
C24_KeyPostIncrement ==
    [][ /\ \A c \in Ctrl :
             RenderStep(c) =>
                 /\ inst'[Len(inst')].key = root[SHARED].count
                 /\ inst'[Len(inst')].entry = SHARED
                 /\ root'[SHARED].count = root[SHARED].count + 1
        /\ \A k \in DOMAIN root :
               k \in DOMAIN root' /\ root'[k].count >= root[k].count
        /\ \A i \in 1..Len(inst') :
               /\ inst'[i].key < root'[inst'[i].entry].count
               /\ \A j \in 1..Len(inst') :
                      (i # j /\ inst'[i].entry = inst'[j].entry)
                          => inst'[i].key # inst'[j].key
      ]_vars

(* Two controllers took keys 0 and 1 from the same entry, one for its own *)
(* Slot and one for the shared Slot.                                      *)
C24_Witness ==
    /\ Len(inst) = 2
    /\ inst[1].ctrl # inst[2].ctrl
    /\ inst[1].entry = inst[2].entry
    /\ inst[1].key = 0 /\ inst[2].key = 1
    /\ Routed(1) /\ Routed(2)
    /\ ph[inst[1].dispatch].slot[1] # ph[inst[2].dispatch].slot[1]

-----------------------------------------------------------------------------
(* C25: constructing or cloning a controller has no side effect on shared *)
(* state: the registry (every counter and dispatch, and which entry is    *)
(* current), every placeholder's list and queue, every instance and every *)
(* other controller's binding are as before.                              *)
C25_ConstructNoSideEffect ==
    [][ \A c \in Ctrl :
            ConstructStep(c) =>
                /\ root' = root /\ SHARED' = SHARED /\ slots' = slots
                /\ ph' = ph /\ inst' = inst
                /\ \A d \in Ctrl \ {c} : _dispatch'[d] = _dispatch[d]
      ]_vars

(* A second controller exists while the first one's Slot and the shared   *)
(* Slot are bound and hold an instance each, keys 0 and 1 taken.          *)
C25_Witness ==
    /\ "c2" \in ctrls
    /\ _dispatch["c1"] # NULL /\ root[SHARED].dispatch # NOOP
    /\ _dispatch["c2"] = NULL
    /\ root[SHARED].count = 2
    /\ \A i \in Instances : inst[i].ctrl = "c1" /\ Routed(i) /\ Live(i, inst[i].dispatch)
    /\ Len(inst) = 2 /\ inst[1].dispatch # inst[2].dispatch

-----------------------------------------------------------------------------
GetSlotStep(c) == _slot'[c] # _slot[c] /\ Len(ph') = Len(ph) /\ c \in ctrls

(* C26: a controller's custom Slot is memoized. At most one Slot component *)
(* is ever created for a controller and every access returns that one; an  *)
(* access that mounts nothing leaves every binding as it was, and render() *)
(* on a controller whose Slot was never mounted goes to the current        *)
(* entry's dispatch.                                                       *)
C26_SlotMemoized ==
    [][ /\ \A c \in Ctrl :
             /\ _slot'[c].created <= 1
             /\ Cardinality(_slot'[c].returned) <= 1
             /\ GetSlotStep(c) =>
                    /\ _dispatch' = _dispatch /\ root' = root /\ SHARED' = SHARED
                    /\ ph' = ph /\ inst' = inst
        /\ \A c \in Ctrl :
             (RenderStep(c) /\ \A p \in Placeholders : ph[p].slot # <<"custom", c>>) =>
                 /\ _dispatch[c] = NULL
                 /\ inst'[Len(inst')].dispatch = root[SHARED].dispatch
      ]_vars

(* The Slot of the Vue controller c1 was read and never mounted, the       *)
(* shared Slot is mounted, and c1's render() went to the shared Slot.      *)
C26_Witness ==
    /\ engine = "vue"
    /\ _slot["c1"].returned = {1} /\ _slot["c1"].memo = 1
    /\ \A p \in Placeholders : ph[p].slot[1] = "shared"
    /\ Len(inst) >= 1 /\ inst[1].ctrl = "c1"
    /\ Routed(1) /\ Live(1, inst[1].dispatch)

-----------------------------------------------------------------------------
Max(S) == CHOOSE x \in S : \A y \in S : y <= x

AllMounted == \A p \in Placeholders : ph[p].mounted

OfSlot(slot) == {p \in Placeholders : ph[p].slot = slot}

(* C27: the later mount overwrites the binding. Mounting a placeholder     *)
(* binds its setter in place of whatever was bound and moves no instance;  *)
(* with two placeholders of the controller's Slot mounted (or, the         *)
(* controller's Slot not being mounted, two of the shared Slot) and none   *)
(* unmounted, render() appends to the list of the one mounted last and to  *)
(* no other.                                                               *)
C27_LaterMountOverwrites ==
    [][ /\ MountStep(<<"custom", "c1">>) => _dispatch'["c1"] = Len(ph')
        /\ MountStep(<<"shared", "">>) => root'[SHARED].dispatch = Len(ph')
        /\ Len(ph') = Len(ph) + 1 =>
               \A q \in Placeholders : ph'[q] = ph[q]
        /\ (RenderStep("c1") /\ AllMounted) =>
               LET i    == Len(inst')
                   t    == inst'[i].dispatch
                   mine == OfSlot(<<"custom", "c1">>)
                   sh   == OfSlot(<<"shared", "">>)
               IN  /\ mine # {} => t = Max(mine)
                   /\ (mine = {} /\ sh # {}) => t = Max(sh)
                   /\ \A q \in Placeholders :
                          i \in Range(ListOfNext(q)) <=> q = t
      ]_vars

(* The controller's Slot is mounted at two places: the instance rendered  *)
(* before the second mount is in the first list, the one rendered after   *)
(* it is in the second.                                                   *)
C27_Witness ==
    /\ Len(ph) = 2 /\ AllMounted
    /\ ph[1].slot = <<"custom", "c1">> /\ ph[2].slot = <<"custom", "c1">>
    /\ Len(inst) = 2
    /\ ListOf(1) = <<1>> /\ ListOf(2) = <<2>>
    /\ Pending(1) /\ Pending(2)

-----------------------------------------------------------------------------
(* What a consumer can see of a placeholder, whatever the engine: the list *)
(* of a mounted Slot, nothing of one that is not mounted.                  *)
SeenList(p) ==
    IF p \in Placeholders /\ ph[p].mounted THEN ListOf(p) ELSE <<>>

SeenListNext(p) == IF ph'[p].mounted THEN ListOfNext(p) ELSE <<>>

(* The same list as an engine-free function of the step: empty for a      *)
(* placeholder that is not mounted, the new instance appended when        *)
(* render() chose the placeholder, the instance whose removal ran taken   *)
(* out, and unchanged otherwise.                                          *)
ExpectedListNext(p) ==
    LET removed == {i \in Instances : /\ inst'[i].destroys = inst[i].destroys + 1
                                      /\ inst[i].dispatch = p}
    IN  IF ~ph'[p].mounted THEN <<>>
        ELSE IF Len(inst') = Len(inst) + 1 /\ inst'[Len(inst')].dispatch = p
             THEN Append(SeenList(p), Len(inst'))
             ELSE IF removed # {}
                  THEN Without(SeenList(p), CHOOSE i \in removed : TRUE)
                  ELSE SeenList(p)

(* C28: the bindings are equivalent for one consumer. In the React and in  *)
(* the Vue binding alike every step follows the same engine-free rules:    *)
(* render() is routed by `_dispatch || SHARED.dispatch`, the list of every *)
(* placeholder is the expected one, in the same order, and the caller's    *)
(* continuation receives the first settlement of its instance.             *)
C28_BindingsEquivalent ==
    [][ /\ RenderStep("c1") =>
               inst'[Len(inst')].dispatch =
                   IF _dispatch["c1"] # NULL THEN _dispatch["c1"] ELSE root[SHARED].dispatch
        /\ \A p \in 1..Len(ph') : SeenListNext(p) = ExpectedListNext(p)
        /\ \A i \in 1..Len(inst') :
               /\ Len(inst'[i].got) <= 1
               /\ inst'[i].got # <<>> => inst'[i].got[1] = inst'[i].first
      ]_vars

(* The React engine has not applied the removal of the first instance and *)
(* the append of the second yet; the list is already the one Vue shows.   *)
C28_Witness ==
    \E p \in Placeholders :
        /\ engine = "react" /\ ph[p].mounted
        /\ ph[p].components = <<1>>
        /\ Len(ph[p].queue) = 2
        /\ SeenList(p) = <<2>>
        /\ Resumed(1)

-----------------------------------------------------------------------------
(* C29: render() and its removal continuation touch one list, the one     *)
(* whose update function render() captured. The append changes no other   *)
(* placeholder; the removal, whatever was mounted, unmounted or rebound    *)
(* since render(), changes no other placeholder either and takes the      *)
(* instance out of the list it was appended to, if that Slot is mounted.  *)
C29_OneListTouched ==
    [][ /\ \A c \in Ctrl :
             RenderStep(c) =>
                 \A q \in Placeholders :
                     q # inst'[Len(inst')].dispatch => ph'[q] = ph[q]
        /\ \A i \in Instances :
             inst'[i].destroys = inst[i].destroys + 1 =>
                 /\ \A q \in Placeholders : q # inst[i].dispatch => ph'[q] = ph[q]
                 /\ (Routed(i) /\ ph[inst[i].dispatch].mounted) =>
                        /\ InList(i, inst[i].dispatch)
                        /\ i \notin Range(ListOfNext(inst[i].dispatch))
      ]_vars

(* An instance went to the shared Slot; then the controller's own Slot was *)
(* mounted and the registry rebound, so that render() is routed elsewhere  *)
(* now; the instance settled and left the shared list, and the instance in *)
(* the controller's Slot is still there.                                   *)
C29_Witness ==
    /\ Len(ph) = 2 /\ AllMounted /\ Len(inst) = 2
    /\ ph[1].slot[1] = "shared" /\ ph[2].slot = <<"custom", inst[1].ctrl>>
    /\ inst[1].dispatch = 1 /\ inst[2].dispatch = 2
    /\ inst[1].entry = "" /\ SHARED = "A"
    /\ inst[1].destroys = 1 /\ Resumed(1) /\ ListOf(1) = <<>>
    /\ Pending(2) /\ ListOf(2) = <<2>>

-----------------------------------------------------------------------------
SharedMounted(appId) ==
    \E p \in Placeholders : ph[p].mounted /\ ph[p].slot = <<"shared", appId>>

(* C30 as stated: render() with no Slot mounted. A render() made while    *)
(* neither the controller's Slot nor the shared Slot of the current entry *)
(* is mounted takes one key from the counter and appends the instance to  *)
(* no list, and an instance that went to the no-op is in no list          *)
(* afterwards, whatever is mounted later.                                 *)
C30_RenderWithoutSlot ==
    [][ /\ \A c \in Ctrl :
             (RenderStep(c) /\ ~CustomMounted(c) /\ ~SharedMounted(SHARED)) =>
                 LET i == Len(inst')
                 IN  /\ inst'[i].key = root[SHARED].count
                     /\ root'[SHARED].count = root[SHARED].count + 1
                     /\ inst'[i].state = "pending"
                     /\ \A q \in 1..Len(ph') :
                            /\ i \notin Range(ListOfNext(q))
                            /\ i \notin Range(ph'[q].components)
        /\ \A i \in 1..Len(inst'), q \in 1..Len(ph') :
               inst'[i].dispatch = NOOP =>
                   /\ i \notin Range(ListOfNext(q))
                   /\ i \notin Range(ph'[q].components)
      ]_vars

-----------------------------------------------------------------------------
(* C31 as stated: a shared placeholder touches its own entry only. A step  *)
(* that mounts or unmounts a placeholder of the shared Slot created for    *)
(* an entry leaves the dispatch of every other Registry entry as it was;   *)
(* in particular, unmounting one Slot's placeholder does not put the       *)
(* no-op into an entry whose own Slot is still mounted.                    *)
C31_SharedMountFrame ==
    [][ \A appId \in AppIds :
            (MountStep(<<"shared", appId>>) \/ UnmountStep(<<"shared", appId>>)) =>
                \A k \in DOMAIN root \ {appId} :
                    /\ root'[k].dispatch = root[k].dispatch
                    /\ (SharedMounted(k) /\ root[k].dispatch # NOOP) =>
                           root'[k].dispatch # NOOP
      ]_vars

-----------------------------------------------------------------------------
(* C32 as stated: bound while mounted. While at least one placeholder of a *)
(* controller's custom Slot is mounted, the controller's _dispatch is      *)
(* non-null and is the setter of a mounted placeholder of that Slot, so    *)
(* render() is routed there; with two placeholders of the Slot mounted,    *)
(* this still holds after either one unmounts.                             *)
C32_BoundWhileMounted ==
    \A c \in ctrls :
        CustomMounted(c) =>
            /\ _dispatch[c] # NULL
            /\ _dispatch[c] \in Placeholders
            /\ ph[_dispatch[c]].mounted
            /\ ph[_dispatch[c]].slot = <<"custom", c>>
            /\ TargetDispatch(c) = _dispatch[c]

-----------------------------------------------------------------------------
(* C33: strict-mode effect replay. When a Slot placeholder mounts with its *)
(* effect run as mount, cleanup, mount, the binding ends registered with   *)
(* the placeholder's setter: a custom Slot's controller has it in          *)
(* _dispatch, the shared Slot's entry has it as dispatch.  A render()      *)
(* issued while it is bound goes to that placeholder's list, and the       *)
(* instance is then displayed there, unless it settles or the placeholder  *)
(* unmounts first.                                                         *)
C33_StrictReplayBinds ==
    /\ [][ /\ \A c \in Ctrl :
                MountStep(<<"custom", c>>) =>
                    /\ _dispatch'[c] = Len(ph')
                    /\ TargetDispatch(c)' = Len(ph')
           /\ \A appId \in AppIds :
                MountStep(<<"shared", appId>>) =>
                    /\ root'[SHARED'].dispatch = Len(ph')
                    /\ \A c \in ctrls : ~CustomMounted(c) => TargetDispatch(c)' = Len(ph')
           /\ \A c \in Ctrl :
                (RenderStep(c) /\ TargetDispatch(c) # NOOP) =>
                    /\ inst'[Len(inst')].dispatch = TargetDispatch(c)
                    /\ ph[TargetDispatch(c)].mounted
                    /\ Len(inst') \in Range(ListOfNext(TargetDispatch(c)))
         ]_vars
    /\ \A i \in 1..MaxInst :
           (i \in Instances /\ Routed(i) /\ Live(i, inst[i].dispatch))
               ~> (i \in Instances /\ Routed(i) /\
                      (Shown(i, inst[i].dispatch) \/ ~Live(i, inst[i].dispatch)))

(* A placeholder mounted in strict mode displays an instance rendered      *)
(* after the replay.                                                       *)
C33_Witness ==
    \E i \in Instances :
        /\ engine = "react"
        /\ Routed(i) /\ Pending(i)
        /\ ph[inst[i].dispatch].slot = <<"custom", inst[i].ctrl>>
        /\ _dispatch[inst[i].ctrl] = inst[i].dispatch
        /\ Shown(i, inst[i].dispatch)

-----------------------------------------------------------------------------
(* C34 as stated: no rejection is left without a handler. In both          *)
(* bindings, when an instance rejects and the caller handles the rejection *)
(* of the promise render() returned, the promise derived inside render()   *)
(* for the cleanup either fulfils or has a rejection handler.              *)
C34_NoUnhandledRejection ==
    \A i \in Instances :
        (inst[i].state = "rejected" /\ inst[i].destroys > 0) =>
            \/ inst[i].derived = "fulfilled"
            \/ DerivedHandled

-----------------------------------------------------------------------------
(* C35: every mount starts with an empty list. A placeholder that mounts   *)
(* holds the empty list and the lists of the others are as they were; the  *)
(* instances that were in a placeholder's list when it unmounted are not   *)
(* put into the list of any other placeholder, neither of the same Slot    *)
(* nor of the fallback shared Slot, and the unmount settles none of their  *)
(* promises.  At all times an instance is in no list but that of the       *)
(* placeholder render() appended it to.                                    *)
C35_MountStartsEmpty ==
    /\ [](\A i \in Instances, p \in Placeholders :
              InList(i, p) => p = inst[i].dispatch)
    /\ [][ /\ Len(ph') > Len(ph) =>
                /\ ph'[Len(ph')].components = <<>>
                /\ ListOfNext(Len(ph')) = <<>>
                /\ \A q \in Placeholders : ListOfNext(q) = ListOf(q)
           /\ \A p \in Unmounting :
                \A i \in Range(ListOf(p)) :
                    /\ inst'[i].state = inst[i].state
                    /\ \A q \in Placeholders \ {p} :
                           /\ i \notin Range(ListOfNext(q))
                           /\ i \notin Range(ph'[q].components)
         ]_vars

(* A pending instance was left in a placeholder that unmounted, the next   *)
(* placeholder of the same Slot is mounted and empty.                      *)
C35_Witness ==
    \E p, q \in Placeholders, i \in Instances :
        /\ p < q /\ ph[p].slot = ph[q].slot
        /\ ~ph[p].mounted /\ ph[q].mounted
        /\ inst[i].dispatch = p /\ i \in Range(ph[p].components)
        /\ Pending(i)
        /\ ListOf(q) = <<>>

-----------------------------------------------------------------------------
Own == {"resolve", "reject", "key"}

(* C36: the controller's own fields take precedence. Whatever the caller   *)
(* passes, props that contain resolve, reject or key included, the         *)
(* instance's resolve and reject are the settle pair of the promise this   *)
(* render() call created, its key is the number taken from the counter,    *)
(* and the caller's other properties are passed on; a view unit that       *)
(* calls the resolve or reject it was given settles its own promise.       *)
C36_OwnFieldsWin ==
    [][ /\ \A c \in Ctrl :
             RenderStep(c) =>
                 LET i == Len(inst')
                     m == inst'[i].props
                 IN  /\ DOMAIN m = DOMAIN inst'[i].given \cup Own
                     /\ m["resolve"] = ByRender(i)
                     /\ m["reject"] = ByRender(i)
                     /\ m["key"] = ByRender(root[SHARED].count)
                     /\ m["key"].n = inst'[i].key
                     /\ \A name \in DOMAIN inst'[i].given \ Own :
                            m[name] = inst'[i].given[name]
        /\ \A i \in Instances :
             inst'[i].state # inst[i].state =>
                 /\ inst[i].state = "pending"
                 /\ \A j \in Instances \ {i} : inst'[j].state = inst[j].state
      ]_vars

(* A caller passed its own resolve, reject and key; the view unit settled  *)
(* the promise of its render() call and the caller was resumed with it.    *)
C36_Witness ==
    \E i \in Instances :
        /\ Own \subseteq DOMAIN inst[i].given
        /\ inst[i].given["resolve"] = ByCaller
        /\ inst[i].props["resolve"] = ByRender(i)
        /\ inst[i].props["key"] = ByRender(inst[i].key)
        /\ inst[i].got = << <<"fulfilled", 41>> >>

====
